---- MODULE Spec2Model ----
(***************************************************************************)
(* Lease-based leader election of package leader (src/leader.go).          *)
(*                                                                         *)
(* Every process runs the Acquire loop, which calls tryAcquire and then    *)
(* sleeps for HeartBeat.  tryAcquire holds the process-local mutex mu for  *)
(* its whole duration and talks to the shared backend Op inside one        *)
(* transaction.  Lead and Run read the flag lead under the read lock.      *)
(*                                                                         *)
(* Time is counted in units of five seconds: HeartBeat = 15 s is 3 units   *)
(* and Timeout = 25 s is 5 units.  One clock serves as the backend's clock *)
(* and as the clock that time.Sleep waits on.                              *)
(***************************************************************************)
EXTENDS Integers, Sequences, FiniteSets, TLC

\* ------------------------------------------------------------------ bounds
\* The clock stops at MaxTime.
MaxTime == 6

\* The participating processes, named by their process IDs.
Procs == {"p1", "p2"}
\* The Acquire loops a process may run; loop 1 is the one the host starts.
Loops == {1, 2}
Drivers == Procs \X Loops
\* The goroutines of a process that call Lead and Run.
Callers == {"c1", "c2"}
Readers == Procs \X Callers

\* -------------------------------------------------------- program constants
\* HeartBeat = 15 * time.Second, in units of 5 s.
DefaultHeartBeat == 3
\* Timeout = 25 * time.Second, in units of 5 s.
DefaultTimeout == 5
\* The zero string: "no leader" as Current reports it.
NoProcess == ""

VARIABLES
    HeartBeat,  \* config: the interval between attempts
    Timeout,    \* config: the age after which a claim is stale
    Op,         \* config: the backend, "noop" or "shared"
    now,        \* the clock
    claim,      \* shared backend: the committed claim [holder, beat]
    epoch,      \* shared backend: the number of commits so far
    txn,        \* shared backend: each driver's transaction
    lead,       \* lead[p]: the process's flag
    mu,         \* mu[p]: the RWMutex, [w: writer holds it, r: readers holding it]
    pc,         \* pc[d]: where the driver's goroutine is
    isLead,     \* isLead[d]: tryAcquire's snapshot of lead
    cur,        \* cur[d]: what Current returned (current, lastBeat, now)
    wake,       \* wake[d]: when the driver's sleep ends, 0 once it has ended
    calls,      \* calls[d]: the backend calls of the attempt in progress, with their results
    pending,    \* pending[p]: the OnLeadChanged goroutines started and not yet run
    nsent,      \* nsent[p]: the number of OnLeadChanged goroutines started so far
    log,        \* log[p]: the OnLeadChanged calls that have run, in the order they ran
    sent,       \* sent[d]: the arguments of the goroutines the attempt in progress started
    outcome,    \* outcome[p]: lead as the last completed attempt left it
    lease,      \* history: lease[p] is the heartbeat of the last claim p committed, -1 if none
    lapsed,     \* history: a claim has been left unrenewed until it was stale
    anyErr,     \* history: a backend operation has failed
    cpc,        \* cpc[r]: where the caller's goroutine is
    call,       \* call[r]: the function the caller is in, "Lead" or "Run"
    l,          \* l[r]: the value Lead read
    ran,        \* ran[r]: how many times the Run in progress has invoked f
    ret         \* ret[r]: the value the call returns

config == <<HeartBeat, Timeout, Op>>
backend == <<claim, epoch, txn>>
driver == <<pc, isLead, cur, wake, calls, sent>>
notifier == <<pending, nsent, log>>
history == <<outcome, lease, lapsed, anyErr>>
caller == <<cpc, call, l, ran, ret>>
vars == <<config, now, backend, lead, mu, driver, notifier, history, caller>>

ProcOf(x) == x[1]

\* No transaction, and the transaction states.
NoTxn == [st |-> "none", ver |-> 0, w |-> [holder |-> NoProcess, beat |-> 0]]
\* The locals of tryAcquire before Current has returned.
NoRead == [current |-> NoProcess, lastBeat |-> 0, now |-> 0]
Vacant == [holder |-> NoProcess, beat |-> 0]

\* The state after package initialisation, with the given configuration and
\* the Acquire loops of Running started.
InitWith(hb, to, op, Running) ==
    /\ HeartBeat = hb /\ Timeout = to /\ Op = op
    /\ now = 0
    /\ claim = Vacant /\ epoch = 0
    /\ txn = [d \in Drivers |-> NoTxn]
    /\ lead = [p \in Procs |-> FALSE]
    /\ mu = [p \in Procs |-> [w |-> FALSE, r |-> 0]]
    /\ pc = [d \in Drivers |-> IF d \in Running THEN "sleep" ELSE "off"]
    /\ isLead = [d \in Drivers |-> FALSE]
    /\ cur = [d \in Drivers |-> NoRead]
    /\ wake = [d \in Drivers |-> 0]
    /\ calls = [d \in Drivers |-> <<>>]
    /\ sent = [d \in Drivers |-> <<>>]
    /\ pending = [p \in Procs |-> {}]
    /\ nsent = [p \in Procs |-> 0]
    /\ log = [p \in Procs |-> <<>>]
    /\ outcome = [p \in Procs |-> FALSE]
    /\ lease = [p \in Procs |-> -1]
    /\ lapsed = FALSE /\ anyErr = FALSE
    /\ call = [r \in Readers |-> "none"]
    /\ l = [r \in Readers |-> FALSE]
    /\ ran = [r \in Readers |-> 0]
    /\ ret = [r \in Readers |-> FALSE]

\* ------------------------------------------------------------ shared backend
\* A backend whose transactions are atomic conditional writes: a transaction
\* remembers the epoch of the claim it read, and TryAcquire and Commit fail when
\* another transaction has committed since.  Every operation may also fail for
\* a reason of its own (connectivity), which the caller cannot tell apart.

\* A write by this transaction would conflict with a commit made since it read.
Conflict(d) == txn[d].ver # epoch

SharedBegin(d, err) ==
    /\ txn' = IF err THEN txn ELSE [txn EXCEPT ![d] = [NoTxn EXCEPT !.st = "open"]]
    /\ UNCHANGED <<claim, epoch>>

\* What Current returns: the committed claim and the backend's time.
SharedRead == [current |-> claim.holder, lastBeat |-> claim.beat, now |-> now]

SharedCurrent(d, err) ==
    /\ txn' = IF err THEN txn ELSE [txn EXCEPT ![d].ver = epoch]
    /\ UNCHANGED <<claim, epoch>>

SharedTryAcquire(d, id, err) ==
    /\ Conflict(d) => err
    /\ txn' = IF err THEN txn
              ELSE [txn EXCEPT ![d].st = "wrote", ![d].w = [holder |-> id, beat |-> now]]
    /\ UNCHANGED <<claim, epoch>>

SharedCommit(d, err) ==
    /\ Conflict(d) => err
    /\ IF err
       THEN UNCHANGED <<claim, epoch, txn>>
       ELSE /\ claim' = IF txn[d].st = "wrote" THEN txn[d].w ELSE claim
            /\ epoch' = IF txn[d].st = "wrote" THEN epoch + 1 ELSE epoch
            /\ txn' = [txn EXCEPT ![d].st = "committed"]

SharedRollback(d) ==
    /\ txn' = [txn EXCEPT ![d] = NoTxn]
    /\ UNCHANGED <<claim, epoch>>

\* ------------------------------------------------------------------ history
\* The committed claim c is stale at time t: t is after its heartbeat + Timeout.
Lapse(c, t) == c.holder # NoProcess /\ t > c.beat + Timeout

\* The attempt of d has called op, which returned err.
Called(d, op, err) ==
    /\ calls' = [calls EXCEPT ![d] = Append(@, [op |-> op, err |-> err])]
    /\ anyErr' = (anyErr \/ err)

\* --------------------------------------------------------------- tryAcquire
\* After with the boundary included: a claim exactly Timeout old counts as stale.
AfterOrAt(t, u) == t >= u

\* time.Time.After
After(t, u) == t > u

\* The decision with the renewal case left out: the holder does not re-acquire.
ShouldAcquireNoRenew(self, current, lastBeat, tnow) ==
    \/ current = NoProcess
    \/ After(tnow, lastBeat + Timeout)

\* The decision with the staleness measured against HeartBeat instead of Timeout.
ShouldAcquireHeartBeat(self, current, lastBeat, tnow) ==
    \/ current = NoProcess
    \/ current = self
    \/ After(tnow, lastBeat + HeartBeat)

\* The decision with the staleness test left out: any claim is taken.
ShouldAcquireAlways(self, current, lastBeat, tnow) == TRUE

\* The decision with the third case left out: a stale claim is never taken over.
ShouldAcquireNoSteal(self, current, lastBeat, tnow) ==
    \/ current = NoProcess
    \/ current = self

\* Whether tryAcquire calls acquire() for what Current returned.
ShouldAcquire(self, current, lastBeat, tnow) ==
    \/ current = NoProcess
    \/ current = self
    \/ After(tnow, lastBeat + Timeout)

\* A lock that keeps readers out and lets a second writer in.
CanLockAmongWriters(p) == mu[p].r = 0

\* mu.Lock() can return: no writer and no reader holds mu.
CanLock(p) == ~mu[p].w /\ mu[p].r = 0

\* A goroutine is blocked in mu.Lock().
WriterWaiting(p) == \E d \in Drivers : ProcOf(d) = p /\ pc[d] = "lock"

\* RLock that pays no attention to writers (a read of lead without the lock).
CanRLockAnytime(p) == TRUE

\* mu.RLock() can return: no writer holds mu and none waits for it.
CanRLock(p) == ~mu[p].w /\ ~WriterWaiting(p)

\* The two statements in the other order: lead = false; isLead := lead.
SnapshotLate(d) ==
    /\ isLead' = [isLead EXCEPT ![d] = FALSE]
    /\ lead' = [lead EXCEPT ![ProcOf(d)] = FALSE]

\* isLead := lead; lead = false
Snapshot(d) ==
    /\ isLead' = [isLead EXCEPT ![d] = lead[ProcOf(d)]]
    /\ lead' = [lead EXCEPT ![ProcOf(d)] = FALSE]

\* defer Op.Rollback() registered before the test of Begin's error.
AfterBeginDeferFirst(d, err) ==
    pc' = [pc EXCEPT ![d] = IF err THEN "rollback" ELSE "current"]

\* err := Op.Begin(); if err != nil { return }; defer Op.Rollback()
AfterBegin(d, err) ==
    pc' = [pc EXCEPT ![d] = IF err THEN "notify" ELSE "current"]

\* Op.Current() followed by acquire() whatever claim it reported.
AfterCurrentAlways(d, res, err) ==
    /\ cur' = [cur EXCEPT ![d] = IF err THEN NoRead ELSE res]
    /\ pc' = [pc EXCEPT ![d] = IF err THEN "rollback" ELSE "tryAcquire"]

\* current, lastBeat, now, err := Op.Current() and the three cases after it
AfterCurrent(d, res, err) ==
    /\ cur' = [cur EXCEPT ![d] = IF err THEN NoRead ELSE res]
    /\ pc' = [pc EXCEPT ![d] =
                IF err THEN "rollback"
                ELSE IF ShouldAcquire(ProcOf(d), res.current, res.lastBeat, res.now)
                     THEN "tryAcquire" ELSE "rollback"]

\* acquire() going on to Commit without looking at TryAcquire's error.
AfterTryAcquireUnchecked(d, err) ==
    pc' = [pc EXCEPT ![d] = "commit"]

\* acquire(): err := Op.TryAcquire(processID); if err != nil { return }
AfterTryAcquire(d, err) ==
    pc' = [pc EXCEPT ![d] = IF err THEN "rollback" ELSE "commit"]

\* acquire() with the test of Commit's error inverted.
AfterCommitInverted(d, err) ==
    /\ lead' = IF err THEN [lead EXCEPT ![ProcOf(d)] = TRUE] ELSE lead
    /\ pc' = [pc EXCEPT ![d] = "rollback"]

\* acquire() with lead = true set without looking at Commit's error.
AfterCommitUnchecked(d, err) ==
    /\ lead' = [lead EXCEPT ![ProcOf(d)] = TRUE]
    /\ pc' = [pc EXCEPT ![d] = "rollback"]

\* acquire(): err = Op.Commit(); if err != nil { return }; lead = true
AfterCommit(d, err) ==
    /\ lead' = IF err THEN lead ELSE [lead EXCEPT ![ProcOf(d)] = TRUE]
    /\ pc' = [pc EXCEPT ![d] = "rollback"]

\* The deferred func notifying only when leadership has been gained.
NotifyArgsGained(d) ==
    IF ~isLead[d] /\ lead[ProcOf(d)] THEN <<TRUE>> ELSE <<>>

\* The deferred func: if isLead != lead { go OnLeadChanged(lead) }
NotifyArgs(d) ==
    IF isLead[d] # lead[ProcOf(d)] THEN <<lead[ProcOf(d)]>> ELSE <<>>

\* ------------------------------------------------- the Acquire loop's steps
\* Acquire: the sleep is over; the loop calls tryAcquire, which calls mu.Lock().
Wake(d) ==
    /\ pc[d] = "sleep" /\ now >= wake[d]
    /\ pc' = [pc EXCEPT ![d] = "lock"]
    /\ wake' = [wake EXCEPT ![d] = 0]
    /\ UNCHANGED <<config, now, backend, lead, mu, isLead, cur, calls, sent,
                   notifier, history, caller>>

\* tryAcquire entered without taking mu.
LockNoMutex(d) ==
    /\ pc[d] = "lock"
    /\ Snapshot(d)
    /\ pc' = [pc EXCEPT ![d] = "begin"]
    /\ UNCHANGED <<config, now, backend, mu, cur, wake, calls, sent, notifier, history, caller>>

\* tryAcquire: mu.Lock() returns; isLead := lead; lead = false.
Lock(d) ==
    /\ pc[d] = "lock" /\ CanLock(ProcOf(d))
    /\ mu' = [mu EXCEPT ![ProcOf(d)].w = TRUE]
    /\ Snapshot(d)
    /\ pc' = [pc EXCEPT ![d] = "begin"]
    /\ UNCHANGED <<config, now, backend, cur, wake, calls, sent, notifier, history, caller>>

\* tryAcquire: Op.Begin() against the shared backend.
Begin(d) ==
    /\ pc[d] = "begin" /\ Op = "shared"
    /\ \E err \in BOOLEAN :
        /\ SharedBegin(d, err)
        /\ AfterBegin(d, err)
        /\ Called(d, "Begin", err)
    /\ UNCHANGED <<config, now, lead, mu, isLead, cur, wake, sent, notifier, outcome,
                   lease, lapsed, caller>>

\* tryAcquire: Op.Current() against the shared backend, and the decision.
Current(d) ==
    /\ pc[d] = "current" /\ Op = "shared"
    /\ \E err \in BOOLEAN :
        /\ SharedCurrent(d, err)
        /\ AfterCurrent(d, SharedRead, err)
        /\ Called(d, "Current", err)
    /\ UNCHANGED <<config, now, lead, mu, isLead, wake, sent, notifier, outcome,
                   lease, lapsed, caller>>

\* acquire: Op.TryAcquire(processID) against the shared backend.
TryAcquire(d) ==
    /\ pc[d] = "tryAcquire" /\ Op = "shared"
    /\ \E err \in BOOLEAN :
        /\ SharedTryAcquire(d, ProcOf(d), err)
        /\ AfterTryAcquire(d, err)
        /\ Called(d, "TryAcquire", err)
    /\ UNCHANGED <<config, now, lead, mu, isLead, cur, wake, sent, notifier, outcome,
                   lease, lapsed, caller>>

\* acquire: Op.Commit() against the shared backend; lead = true when it succeeds.
Commit(d) ==
    /\ pc[d] = "commit" /\ Op = "shared"
    /\ \E err \in BOOLEAN :
        /\ SharedCommit(d, err)
        /\ AfterCommit(d, err)
        /\ Called(d, "Commit", err)
    /\ lease' = IF claim' # claim \/ epoch' # epoch
                THEN [lease EXCEPT ![ProcOf(d)] = claim'.beat] ELSE lease
    /\ lapsed' = (lapsed \/ Lapse(claim', now))
    /\ UNCHANGED <<config, now, mu, isLead, cur, wake, sent, notifier, outcome, caller>>

\* tryAcquire returns: the deferred Op.Rollback() runs first, its error dropped.
Rollback(d) ==
    /\ pc[d] = "rollback" /\ Op = "shared"
    /\ SharedRollback(d)
    /\ \E err \in BOOLEAN : Called(d, "Rollback", err)
    /\ pc' = [pc EXCEPT ![d] = "notify"]
    /\ UNCHANGED <<config, now, lead, mu, isLead, cur, wake, sent, notifier, outcome,
                   lease, lapsed, caller>>

\* tryAcquire returns: the deferred func runs next and starts the notifier's
\* goroutine when lead has changed.
Notify(d) ==
    /\ pc[d] = "notify"
    /\ sent' = [sent EXCEPT ![d] = NotifyArgs(d)]
    /\ nsent' = [nsent EXCEPT ![ProcOf(d)] = @ + Len(NotifyArgs(d))]
    /\ pending' = [pending EXCEPT ![ProcOf(d)] =
                     @ \cup {[n |-> nsent[ProcOf(d)] + i, arg |-> NotifyArgs(d)[i]] :
                             i \in 1..Len(NotifyArgs(d))}]
    /\ pc' = [pc EXCEPT ![d] = "unlock"]
    /\ UNCHANGED <<config, now, backend, lead, mu, isLead, cur, wake, calls, log,
                   history, caller>>

\* tryAcquire returns: the deferred mu.Unlock() runs last; Acquire then sleeps.
Unlock(d) ==
    /\ pc[d] = "unlock"
    /\ mu' = [mu EXCEPT ![ProcOf(d)].w = FALSE]
    /\ outcome' = [outcome EXCEPT ![ProcOf(d)] = lead[ProcOf(d)]]
    /\ pc' = [pc EXCEPT ![d] = "sleep"]
    /\ wake' = [wake EXCEPT ![d] = now + HeartBeat]
    /\ isLead' = [isLead EXCEPT ![d] = FALSE]
    /\ cur' = [cur EXCEPT ![d] = NoRead]
    /\ calls' = [calls EXCEPT ![d] = <<>>]
    /\ sent' = [sent EXCEPT ![d] = <<>>]
    /\ UNCHANGED <<config, now, backend, lead, notifier, lease, lapsed, anyErr, caller>>

\* Goroutines that run in the order in which they were started.
CanRunInOrder(p, g) == \A h \in pending[p] : g.n <= h.n

\* go OnLeadChanged(lead): a goroutine that has been started can run whenever
\* the scheduler picks it, whatever other goroutines are waiting.
CanRun(p, g) == TRUE

\* The goroutine g started by go OnLeadChanged(lead) runs the callback.
Callback(p, g) ==
    /\ g \in pending[p] /\ CanRun(p, g)
    /\ pending' = [pending EXCEPT ![p] = @ \ {g}]
    /\ log' = [log EXCEPT ![p] = Append(@, g)]
    /\ UNCHANGED <<config, now, backend, lead, mu, driver, nsent, history, caller>>

\* A goroutine started by go OnLeadChanged(lead) runs the callback.
OnLeadChanged(p) == \E g \in pending[p] : Callback(p, g)

\* The clock advances; the sleeps that end at the new time are over.
Tick ==
    /\ now < MaxTime
    /\ now' = now + 1
    /\ wake' = [d \in Drivers |-> IF wake[d] <= now + 1 THEN 0 ELSE wake[d]]
    /\ lapsed' = (lapsed \/ Lapse(claim, now + 1))
    /\ UNCHANGED <<config, backend, lead, mu, pc, isLead, cur, calls, sent, notifier, outcome, lease, anyErr, caller>>

\* ------------------------------------------------------------ Lead and Run
\* Run without the test: f is invoked whatever Lead returned.
RunInvokesAlways(lv) == TRUE

\* if l { f() }: whether Run invokes f for the value Lead returned.
RunInvokes(lv) == lv

\* return l: what Run returns for the value Lead returned.
RunReturns(lv) == lv

\* A goroutine calls Lead().
CallLead(r) ==
    /\ cpc[r] = "idle"
    /\ call' = [call EXCEPT ![r] = "Lead"]
    /\ cpc' = [cpc EXCEPT ![r] = "rlock"]
    /\ UNCHANGED <<config, now, backend, lead, mu, driver, notifier, history, l, ran, ret>>

\* A goroutine calls Run(f), which calls Lead().
CallRun(r) ==
    /\ cpc[r] = "idle"
    /\ call' = [call EXCEPT ![r] = "Run"]
    /\ cpc' = [cpc EXCEPT ![r] = "rlock"]
    /\ UNCHANGED <<config, now, backend, lead, mu, driver, notifier, history, l, ran, ret>>

\* Lead: mu.RLock() returns; l := lead.
RLock(r) ==
    /\ cpc[r] = "rlock" /\ CanRLock(ProcOf(r))
    /\ mu' = [mu EXCEPT ![ProcOf(r)].r = @ + 1]
    /\ l' = [l EXCEPT ![r] = lead[ProcOf(r)]]
    /\ cpc' = [cpc EXCEPT ![r] = "runlock"]
    /\ UNCHANGED <<config, now, backend, lead, driver, notifier, history, call, ran, ret>>

\* Run reading lead and invoking f under the read lock, which is released
\* only when f has returned.
RUnlockAfterF(r) ==
    /\ cpc[r] = "runlock"
    /\ IF call[r] = "Run" /\ RunInvokes(l[r])
       THEN /\ cpc' = [cpc EXCEPT ![r] = "f"]
            /\ ran' = [ran EXCEPT ![r] = @ + 1]
            /\ UNCHANGED <<ret, mu>>
       ELSE /\ cpc' = [cpc EXCEPT ![r] = "done"]
            /\ ret' = [ret EXCEPT ![r] = IF call[r] = "Run" THEN RunReturns(l[r]) ELSE l[r]]
            /\ mu' = [mu EXCEPT ![ProcOf(r)].r = @ - 1]
            /\ UNCHANGED ran
    /\ UNCHANGED <<config, now, backend, lead, driver, notifier, history, call, l>>

\* Lead: mu.RUnlock(); return l.  In Run, f is invoked when l is true.
RUnlock(r) ==
    /\ cpc[r] = "runlock"
    /\ mu' = [mu EXCEPT ![ProcOf(r)].r = @ - 1]
    /\ IF call[r] = "Run" /\ RunInvokes(l[r])
       THEN /\ cpc' = [cpc EXCEPT ![r] = "f"]
            /\ ran' = [ran EXCEPT ![r] = @ + 1]
            /\ UNCHANGED ret
       ELSE /\ cpc' = [cpc EXCEPT ![r] = "done"]
            /\ ret' = [ret EXCEPT ![r] = IF call[r] = "Run" THEN RunReturns(l[r]) ELSE l[r]]
            /\ UNCHANGED ran
    /\ UNCHANGED <<config, now, backend, lead, driver, notifier, history, call, l>>

\* Run: f returns; return l.
FReturn(r) ==
    /\ cpc[r] = "f"
    /\ cpc' = [cpc EXCEPT ![r] = "done"]
    /\ ret' = [ret EXCEPT ![r] = RunReturns(l[r])]
    /\ UNCHANGED <<config, now, backend, lead, mu, driver, notifier, history, call, l, ran>>

\* The caller has taken the result.
Return(r) ==
    /\ cpc[r] = "done"
    /\ cpc' = [cpc EXCEPT ![r] = "idle"]
    /\ call' = [call EXCEPT ![r] = "none"]
    /\ l' = [l EXCEPT ![r] = FALSE]
    /\ ran' = [ran EXCEPT ![r] = 0]
    /\ ret' = [ret EXCEPT ![r] = FALSE]
    /\ UNCHANGED <<config, now, backend, lead, mu, driver, notifier, history>>

\* ---------------------------------------------------------- the noop backend
\* noop.Begin, noop.Commit, noop.Rollback and noop.TryAcquire return nil.
NoopErr == FALSE

\* noop.Current: return processID, time.Now(), time.Now(), nil.  The named
\* result processID shadows the package's processID, so what is returned is
\* the result's zero value, the empty string.
NoopRead == [current |-> NoProcess, lastBeat |-> now, now |-> now]

NoopBegin(d) ==
    /\ pc[d] = "begin" /\ Op = "noop"
    /\ AfterBegin(d, NoopErr)
    /\ Called(d, "Begin", NoopErr)
    /\ UNCHANGED <<config, now, backend, lead, mu, isLead, cur, wake, sent, notifier,
                   outcome, lease, lapsed, caller>>

NoopCurrent(d) ==
    /\ pc[d] = "current" /\ Op = "noop"
    /\ AfterCurrent(d, NoopRead, NoopErr)
    /\ Called(d, "Current", NoopErr)
    /\ UNCHANGED <<config, now, backend, lead, mu, isLead, wake, sent, notifier,
                   outcome, lease, lapsed, caller>>

NoopTryAcquire(d) ==
    /\ pc[d] = "tryAcquire" /\ Op = "noop"
    /\ AfterTryAcquire(d, NoopErr)
    /\ Called(d, "TryAcquire", NoopErr)
    /\ UNCHANGED <<config, now, backend, lead, mu, isLead, cur, wake, sent, notifier,
                   outcome, lease, lapsed, caller>>

NoopCommit(d) ==
    /\ pc[d] = "commit" /\ Op = "noop"
    /\ AfterCommit(d, NoopErr)
    /\ Called(d, "Commit", NoopErr)
    /\ UNCHANGED <<config, now, backend, mu, isLead, cur, wake, sent, notifier,
                   outcome, lease, lapsed, caller>>

NoopRollback(d) ==
    /\ pc[d] = "rollback" /\ Op = "noop"
    /\ Called(d, "Rollback", NoopErr)
    /\ pc' = [pc EXCEPT ![d] = "notify"]
    /\ UNCHANGED <<config, now, backend, lead, mu, isLead, cur, wake, sent, notifier,
                   outcome, lease, lapsed, caller>>

\* ------------------------------------------------------------ specification
\* The loops and callers that run in each specification.
OneProc == {"p1"}

\* One process on its own: its Acquire loop, its goroutines calling Lead and
\* Run, and its notifier goroutines, against the shared backend.
Init ==
    /\ InitWith(DefaultHeartBeat, DefaultTimeout, "shared", OneProc \X {1})
    /\ cpc = [r \in Readers |-> IF ProcOf(r) \in OneProc THEN "idle" ELSE "off"]

Next ==
    \/ Tick
    \/ \E d \in Drivers : Wake(d)
    \/ \E d \in Drivers : Lock(d)
    \/ \E d \in Drivers : Begin(d)
    \/ \E d \in Drivers : Current(d)
    \/ \E d \in Drivers : TryAcquire(d)
    \/ \E d \in Drivers : Commit(d)
    \/ \E d \in Drivers : Rollback(d)
    \/ \E d \in Drivers : Notify(d)
    \/ \E d \in Drivers : Unlock(d)
    \/ \E p \in Procs : OnLeadChanged(p)
    \/ \E r \in Readers : CallLead(r)
    \/ \E r \in Readers : CallRun(r)
    \/ \E r \in Readers : RLock(r)
    \/ \E r \in Readers : RUnlock(r)
    \/ \E r \in Readers : FReturn(r)
    \/ \E r \in Readers : Return(r)

Spec == Init /\ [][Next]_vars

\* Every process's Acquire loop followed step by step against the shared
\* backend; no callers.
InitFleet ==
    /\ InitWith(DefaultHeartBeat, DefaultTimeout, "shared", Procs \X {1})
    /\ cpc = [r \in Readers |-> "off"]

NextFleet ==
    \/ Tick
    \/ \E d \in Drivers : Wake(d)
    \/ \E d \in Drivers : Lock(d)
    \/ \E d \in Drivers : Begin(d)
    \/ \E d \in Drivers : Current(d)
    \/ \E d \in Drivers : TryAcquire(d)
    \/ \E d \in Drivers : Commit(d)
    \/ \E d \in Drivers : Rollback(d)
    \/ \E d \in Drivers : Notify(d)
    \/ \E d \in Drivers : Unlock(d)
    \/ \E p \in Procs : OnLeadChanged(p)

SpecFleet == InitFleet /\ [][NextFleet]_vars

\* Every process's Acquire loop followed step by step against the shared
\* backend, and one goroutine of one process that calls Run.
InitRun ==
    /\ InitWith(DefaultHeartBeat, DefaultTimeout, "shared", Procs \X {1})
    /\ cpc = [r \in Readers |-> IF r = <<"p1", "c1">> THEN "idle" ELSE "off"]

NextRun ==
    \/ Tick
    \/ \E d \in Drivers : Wake(d)
    \/ \E d \in Drivers : Lock(d)
    \/ \E d \in Drivers : Begin(d)
    \/ \E d \in Drivers : Current(d)
    \/ \E d \in Drivers : TryAcquire(d)
    \/ \E d \in Drivers : Commit(d)
    \/ \E d \in Drivers : Rollback(d)
    \/ \E d \in Drivers : Notify(d)
    \/ \E d \in Drivers : Unlock(d)
    \/ \E p \in Procs : OnLeadChanged(p)
    \/ \E r \in Readers : CallRun(r)
    \/ \E r \in Readers : RLock(r)
    \/ \E r \in Readers : RUnlock(r)
    \/ \E r \in Readers : FReturn(r)
    \/ \E r \in Readers : Return(r)

SpecRun == InitRun /\ [][NextRun]_vars

\* Every process's Acquire loop, no callers, with the package's
\* defaults: Op is the noop backend.
InitNoop ==
    /\ InitWith(DefaultHeartBeat, DefaultTimeout, "noop", Procs \X {1})
    /\ cpc = [r \in Readers |-> "off"]

NextNoop ==
    \/ Tick
    \/ \E d \in Drivers : Wake(d)
    \/ \E d \in Drivers : Lock(d)
    \/ \E d \in Drivers : NoopBegin(d)
    \/ \E d \in Drivers : NoopCurrent(d)
    \/ \E d \in Drivers : NoopTryAcquire(d)
    \/ \E d \in Drivers : NoopCommit(d)
    \/ \E d \in Drivers : NoopRollback(d)
    \/ \E d \in Drivers : Notify(d)
    \/ \E d \in Drivers : Unlock(d)
    \/ \E p \in Procs : OnLeadChanged(p)

SpecNoop == InitNoop /\ [][NextNoop]_vars

\* One process on its own running tryAcquire in two goroutines (Acquire
\* started twice), against the shared backend; no callers.
InitLoops ==
    /\ InitWith(DefaultHeartBeat, DefaultTimeout, "shared", OneProc \X Loops)
    /\ cpc = [r \in Readers |-> "off"]

NextLoops ==
    \/ Tick
    \/ \E d \in Drivers : Wake(d)
    \/ \E d \in Drivers : Lock(d)
    \/ \E d \in Drivers : Begin(d)
    \/ \E d \in Drivers : Current(d)
    \/ \E d \in Drivers : TryAcquire(d)
    \/ \E d \in Drivers : Commit(d)
    \/ \E d \in Drivers : Rollback(d)
    \/ \E d \in Drivers : Notify(d)
    \/ \E d \in Drivers : Unlock(d)
    \/ \E p \in Procs : OnLeadChanged(p)

SpecLoops == InitLoops /\ [][NextLoops]_vars

\* The step of d is a backend call that fails.
StepFails(d) ==
    /\ Len(calls'[d]) = Len(calls[d]) + 1
    /\ calls'[d][Len(calls'[d])].err

\* A backend without failures of its own: an operation fails only when the
\* write of its transaction conflicts with a commit made since it read.
NoFault(d) ==
    StepFails(d) => Conflict(d) /\ pc[d] \in {"tryAcquire", "commit"}

\* time.Sleep(HeartBeat) that never oversleeps: the clock does not pass the
\* end of a sleep before the loop has gone on to its next attempt.
TickOnTime ==
    /\ \A d \in Drivers : pc[d] = "sleep" => wake[d] > now
    /\ Tick

\* Every process's Acquire loop followed step by step, with HeartBeat >= Timeout
\* (Timeout is 5 s or 15 s, HeartBeat 15 s), sleeps that end on time and a
\* backend without failures of its own; no callers.
InitSlowBeat ==
    /\ \E to \in {DefaultHeartBeat - 2, DefaultHeartBeat} :
         InitWith(DefaultHeartBeat, to, "shared", Procs \X {1})
    /\ cpc = [r \in Readers |-> "off"]

NextSlowBeat ==
    \/ TickOnTime
    \/ \E d \in Drivers : Wake(d)
    \/ \E d \in Drivers : Lock(d)
    \/ \E d \in Drivers : Begin(d) /\ NoFault(d)
    \/ \E d \in Drivers : Current(d) /\ NoFault(d)
    \/ \E d \in Drivers : TryAcquire(d) /\ NoFault(d)
    \/ \E d \in Drivers : Commit(d) /\ NoFault(d)
    \/ \E d \in Drivers : Rollback(d) /\ NoFault(d)
    \/ \E d \in Drivers : Notify(d)
    \/ \E d \in Drivers : Unlock(d)
    \/ \E p \in Procs : OnLeadChanged(p)

SpecSlowBeat == InitSlowBeat /\ [][NextSlowBeat]_vars

\* The loops the host has started, one per process.
Started == Procs \X {1}

\* The host terminates a process whose loop is asleep (there is no other way
\* to stop Acquire); the other processes keep running.
Stop(d) ==
    /\ d \in Started /\ pc[d] = "sleep"
    /\ \A e \in Started \ {d} : pc[e] # "off"
    /\ pc' = [pc EXCEPT ![d] = "off"]
    /\ wake' = [wake EXCEPT ![d] = 0]
    /\ UNCHANGED <<config, now, backend, lead, mu, isLead, cur, calls, sent,
                   notifier, history, caller>>

\* A step of the Acquire loop d, against a backend without failures of its own.
LoopStep(d) ==
    \/ Wake(d)
    \/ Lock(d)
    \/ Begin(d) /\ NoFault(d)
    \/ Current(d) /\ NoFault(d)
    \/ TryAcquire(d) /\ NoFault(d)
    \/ Commit(d) /\ NoFault(d)
    \/ Rollback(d) /\ NoFault(d)
    \/ Notify(d)
    \/ Unlock(d)

\* Every process's Acquire loop followed step by step against a backend without
\* failures of its own; one process may be terminated.  Time keeps advancing
\* and every loop that has not been terminated keeps running.
InitFailover ==
    /\ InitWith(DefaultHeartBeat, DefaultTimeout, "shared", Started)
    /\ cpc = [r \in Readers |-> "off"]

\* The committed claim belongs to a process that has been terminated.
FailoverPending == claim.holder # NoProcess /\ pc[<<claim.holder, 1>>] = "off"

\* A time t as it reads one unit of time later on a clock that stays at
\* MaxTime: one unit further back.  A heartbeat more than Timeout behind
\* MaxTime is past its timeout however far back it is, and is left there.
Back(t) == IF t > MaxTime - Timeout - 1 THEN t - 1 ELSE t

\* Time goes on after MaxTime for as long as a terminated process holds the
\* claim.  The clock reads MaxTime throughout, and every time the program
\* keeps to compare with the clock (the claim's heartbeat, the heartbeat of a
\* write that is not yet committed, the end of a sleep) moves one unit back
\* instead: the tests of tryAcquire and of time.Sleep depend on differences
\* of times only.  The sleeps that end at the new time are over.
TickBeyond ==
    /\ now = MaxTime /\ FailoverPending
    /\ claim' = [claim EXCEPT !.beat = Back(@)]
    /\ txn' = [d \in Drivers |->
                 IF txn[d].st = "wrote" THEN [txn[d] EXCEPT !.w.beat = Back(@)]
                 ELSE txn[d]]
    /\ wake' = [d \in Drivers |-> IF wake[d] - 1 <= now THEN 0 ELSE wake[d] - 1]
    /\ lease' = [p \in Procs |-> IF lease[p] < 0 THEN lease[p] ELSE Back(lease[p])]
    /\ lapsed' = (lapsed \/ Lapse(claim', now))
    /\ UNCHANGED <<config, now, epoch, lead, mu, pc, isLead, cur, calls, sent,
                   notifier, outcome, anyErr, caller>>

NextFailover ==
    \/ Tick
    \/ TickBeyond
    \/ \E d \in Drivers : LoopStep(d)
    \/ \E d \in Drivers : Stop(d)
    \/ \E p \in Procs : OnLeadChanged(p)

SpecFailover ==
    /\ InitFailover /\ [][NextFailover]_vars
    /\ WF_vars(Tick) /\ WF_vars(TickBeyond)
    /\ \A d \in Drivers : WF_vars(LoopStep(d))

\* ------------------------------------------------------------------- claims
\* The attempt of d has received Current's answer and has not yet returned.
HasRead(d) ==
    /\ pc[d] \in {"tryAcquire", "commit", "rollback", "notify", "unlock"}
    /\ \E i \in 1..Len(calls[d]) : calls[d][i].op = "Current" /\ ~calls[d][i].err

\* The attempt of d has done everything but release mu: it ends as this state is.
AttemptEnds(d) == pc[d] = "unlock"

\* The attempt of d called op and the call succeeded / failed.
Succeeded(d, op) == \E i \in 1..Len(calls[d]) : calls[d][i].op = op /\ ~calls[d][i].err
Failed(d, op) == \E i \in 1..Len(calls[d]) : calls[d][i].op = op /\ calls[d][i].err

\* The process is within Timeout of the heartbeat of the last claim it committed.
LeaseFresh(p) == lease[p] >= 0 /\ now <= lease[p] + Timeout

\* C1, as stated: in no reachable state do two processes both have lead = true.
C1_NeverTwoLeaders ==
    \A p, q \in Procs : lead[p] /\ lead[q] => p = q

\* C1, amended: a process that has lead = true and is within Timeout of the
\* heartbeat of its last committed claim holds the committed claim, so at most
\* one process has lead = true with an unexpired lease; a second process has
\* lead = true only once the first one's lease has expired.
C1_LeaseExclusive ==
    /\ \A p \in Procs : lead[p] /\ LeaseFresh(p) => claim = [holder |-> p, beat |-> lease[p]]
    /\ \A p, q \in Procs : lead[p] /\ lead[q] /\ p # q => ~LeaseFresh(p) \/ ~LeaseFresh(q)
    /\ \A p \in Procs : lead[p] => lease[p] >= 0

\* Two processes have lead = true, one of them with its lease unexpired.
C1_Witness ==
    \E p, q \in Procs : p # q /\ lead[p] /\ lead[q] /\ LeaseFresh(q) /\ ~LeaseFresh(p)

\* The attempt of d read a claim held by another process.
ReadOther(d) == HasRead(d) /\ cur[d].current \notin {NoProcess, ProcOf(d)}

\* C2: an attempt that reads a claim held by a different process with
\* now <= lastHeartBeat + Timeout (equality included) calls neither TryAcquire
\* nor Commit, does not become leader and does not overwrite the claim; so a
\* process that becomes leader over another's claim read now > lastHeartBeat + Timeout.
C2_NoStealBeforeTimeout ==
    \A d \in Drivers :
        /\ ReadOther(d) /\ cur[d].now <= cur[d].lastBeat + Timeout
            => /\ ~lead[ProcOf(d)]
               /\ claim.holder # ProcOf(d)
               /\ txn[d].st \in {"open", "none"}
               /\ \A i \in 1..Len(calls[d]) : calls[d][i].op \notin {"TryAcquire", "Commit"}
        /\ ReadOther(d) /\ lead[ProcOf(d)] => cur[d].now > cur[d].lastBeat + Timeout

\* An attempt ends that read another process's claim exactly Timeout old.
C2_Witness ==
    \E d \in Drivers :
        /\ AttemptEnds(d) /\ ReadOther(d)
        /\ cur[d].now = cur[d].lastBeat + Timeout
        /\ ~lead[ProcOf(d)]

\* The processes that have committed a claim.
Committers == {p \in Procs : lease[p] >= 0}

\* C3: as long as the committed claim has never been left without renewal
\* until it was stale (as it is while the holder's attempts are less than
\* Timeout apart) and no backend operation has failed, only one process has
\* ever committed a claim, and every attempt of the holder ends with lead = true.
C3_RenewingLeaderKeeps ==
    (~lapsed /\ ~anyErr) =>
        /\ Cardinality(Committers) <= 1
        /\ \A d \in Drivers :
            AttemptEnds(d) /\ claim.holder = ProcOf(d) => lead[ProcOf(d)]

\* The holder ends a renewal, less than Timeout after its last heartbeat, while
\* another process is in an attempt that read the holder's claim.
C3_Witness ==
    /\ ~lapsed /\ ~anyErr /\ epoch >= 2
    /\ \E d, e \in Drivers :
        /\ AttemptEnds(d) /\ claim.holder = ProcOf(d) /\ isLead[d] /\ lead[ProcOf(d)]
        /\ ReadOther(e) /\ cur[e].current = ProcOf(d) /\ cur[e].lastBeat = claim.beat

\* C4: an attempt in which Begin and Current succeed, Current reports no
\* holder, and TryAcquire and Commit succeed ends with lead = true and has
\* committed a claim carrying its own process ID (which is the committed claim
\* unless it has expired and been taken since); when lead was false before the
\* attempt, the attempt starts OnLeadChanged exactly once, with true.
C4_VacantClaimAcquired ==
    \A d \in Drivers :
        ( /\ AttemptEnds(d)
          /\ Succeeded(d, "Begin") /\ Succeeded(d, "Current")
          /\ cur[d].current = NoProcess
          /\ Succeeded(d, "TryAcquire") /\ Succeeded(d, "Commit") )
        => /\ lead[ProcOf(d)]
           /\ lease[ProcOf(d)] >= cur[d].now
           /\ \/ claim = [holder |-> ProcOf(d), beat |-> lease[ProcOf(d)]]
              \/ claim.holder # ProcOf(d) /\ now > lease[ProcOf(d)] + Timeout
           /\ ~outcome[ProcOf(d)] => sent[d] = <<TRUE>>

\* The first attempt of a process found the claim vacant and took it: lead is
\* true, the claim is its own, and the one notification so far carries true.
C4_Witness ==
    \E d \in Drivers :
        /\ AttemptEnds(d) /\ Succeeded(d, "Current") /\ cur[d].current = NoProcess
        /\ Succeeded(d, "Commit")
        /\ lead[ProcOf(d)] /\ claim.holder = ProcOf(d)
        /\ sent[d] = <<TRUE>> /\ nsent[ProcOf(d)] = 1

\* The notifications of p: started and waiting, and run.
Ran(p) == {log[p][i] : i \in 1..Len(log[p])}
Notes(p) == pending[p] \cup Ran(p)
\* The notifications the attempts in progress of p have started.
JustSent(p) == Cardinality({d \in Drivers : ProcOf(d) = p /\ sent[d] # <<>>})

\* C5: an attempt starts OnLeadChanged exactly once, with the new value, when
\* it ends with lead different from what the previous attempt left, and not at
\* all when lead is the same; over the attempts of a process the notifications
\* therefore alternate true, false, true, ..., and each one started runs at
\* most once.
C5_NotifiedOncePerTransition ==
    /\ \A d \in Drivers :
        /\ AttemptEnds(d) =>
             sent[d] = IF lead[ProcOf(d)] # outcome[ProcOf(d)]
                       THEN <<lead[ProcOf(d)]>> ELSE <<>>
        /\ ~AttemptEnds(d) => sent[d] = <<>>
    /\ \A p \in Procs :
        /\ {g.n : g \in Notes(p)} = 1..nsent[p]
        /\ Cardinality(pending[p]) + Len(log[p]) = nsent[p]
        /\ \A g \in Notes(p) : g.arg = (g.n % 2 = 1)
        /\ outcome[p] = ((nsent[p] - JustSent(p)) % 2 = 1)

\* A leader ends a successful renewal: lead stays true and nothing is sent,
\* after the one notification of its becoming leader has run.
C5_Witness ==
    \E d \in Drivers :
        /\ AttemptEnds(d) /\ isLead[d] /\ lead[ProcOf(d)] /\ sent[d] = <<>>
        /\ log[ProcOf(d)] = <<[n |-> 1, arg |-> TRUE]>> /\ nsent[ProcOf(d)] = 1

\* An operation of the attempt of d has failed.
SomeFailed(d, ops) == \E op \in ops : Failed(d, op)
\* An attempt of p is between mu.Lock() and mu.Unlock().
InAttempt(p) ==
    \E d \in Drivers :
        /\ ProcOf(d) = p
        /\ pc[d] \in {"begin", "current", "tryAcquire", "commit", "rollback", "notify", "unlock"}

\* C6, as stated: an attempt in which any backend operation fails, Rollback
\* included, ends with lead = false.
C6_AnyFailureLosesLead ==
    \A d \in Drivers :
        AttemptEnds(d) /\ SomeFailed(d, {"Begin", "Current", "TryAcquire", "Commit", "Rollback"})
            => ~lead[ProcOf(d)]

\* C6, amended: an attempt in which Begin, Current, TryAcquire or Commit fails
\* ends with lead = false, also when lead was true before it; the error of the
\* deferred Rollback is dropped, so an attempt whose Commit succeeded ends with
\* lead = true whatever Rollback returns.  Nothing of the failure is kept: the
\* lock is held exactly while an attempt is in progress.
C6_FailureLosesLead ==
    /\ \A d \in Drivers :
        /\ AttemptEnds(d) /\ SomeFailed(d, {"Begin", "Current", "TryAcquire", "Commit"})
            => ~lead[ProcOf(d)]
        /\ AttemptEnds(d) /\ Succeeded(d, "Commit") => lead[ProcOf(d)]
        /\ pc[d] \in {"sleep", "lock"} => calls[d] = <<>> /\ txn[d] = NoTxn
    /\ \A p \in Procs : mu[p].w <=> InAttempt(p)

\* A leader's renewal fails at Commit: the attempt ends with lead = false and
\* has started OnLeadChanged(false).
C6_Witness ==
    \E d \in Drivers :
        /\ AttemptEnds(d) /\ isLead[d] /\ Failed(d, "Commit")
        /\ ~lead[ProcOf(d)] /\ sent[d] = <<FALSE>>

\* C7: the value Lead reads is lead as the most recently completed attempt
\* left it (false before the first one completes), no attempt is in progress
\* while Lead holds the read lock, and Lead returns the value it read.
C7_LeadReadsLastOutcome ==
    \A r \in Readers :
        /\ cpc[r] = "runlock" => l[r] = outcome[ProcOf(r)] /\ ~InAttempt(ProcOf(r))
        /\ cpc[r] = "done" /\ call[r] = "Lead" => ret[r] = l[r]

\* Lead has read true under the read lock while the next attempt, which will
\* write the tentative false, waits for the lock.
C7_Witness ==
    \E r \in Readers :
        /\ cpc[r] = "runlock" /\ call[r] = "Lead" /\ l[r]
        /\ WriterWaiting(ProcOf(r))

\* An attempt of p has a backend call outstanding.
BackendCallOutstanding(p) ==
    \E d \in Drivers :
        /\ ProcOf(d) = p
        /\ pc[d] \in {"begin", "current", "tryAcquire", "commit", "rollback"}

\* C8, as stated: a Lead call can complete in every state, also while an
\* attempt of its process has a backend call outstanding.
C8_LeadNeverWaits ==
    \A r \in Readers :
        cpc[r] = "rlock" /\ BackendCallOutstanding(ProcOf(r)) => ENABLED RLock(r)

\* C8, amended: a Lead call can take the read lock exactly when no attempt of
\* its process holds or awaits mu, however many other callers hold the read
\* lock; while an attempt is in progress, its backend calls included, Lead
\* waits until the attempt has released mu.
C8_LeadWaitsOnlyForAttempt ==
    \A r \in Readers :
        cpc[r] = "rlock" =>
            (ENABLED RLock(r) <=> ~InAttempt(ProcOf(r)) /\ ~WriterWaiting(ProcOf(r)))

\* A Lead call can proceed while another caller holds the read lock.
C8_Witness ==
    \E r, q \in Readers :
        /\ r # q /\ ProcOf(r) = ProcOf(q)
        /\ cpc[r] = "rlock" /\ call[r] = "Lead" /\ cpc[q] = "runlock"
        /\ mu[ProcOf(r)].r = 1 /\ ENABLED RLock(r)

\* C9: Run invokes f exactly once when the value Lead returned to it is true
\* and never when it is false, and returns true exactly when it invoked f.
C9_RunInvokesIffLead ==
    \A r \in Readers :
        /\ cpc[r] = "f" => call[r] = "Run" /\ l[r] /\ ran[r] = 1
        /\ cpc[r] = "done" /\ call[r] = "Run" =>
             /\ ran[r] = (IF l[r] THEN 1 ELSE 0)
             /\ ret[r] = (ran[r] = 1)
        /\ call[r] # "Run" => ran[r] = 0

\* A Run has returned true after invoking f once, and another has returned
\* false without invoking it.
C9_Witness ==
    \E r, q \in Readers :
        /\ cpc[r] = "done" /\ call[r] = "Run" /\ ran[r] = 1 /\ ret[r]
        /\ cpc[q] = "done" /\ call[q] = "Run" /\ ran[q] = 0 /\ ~ret[q]

\* C10, as stated: with the noop backend every operation succeeds, Current
\* reports the calling process's own ID as the holder with a heartbeat that is
\* not stale, and every attempt ends with lead = true, OnLeadChanged(true)
\* being started by the first attempt only.
C10_NoopReportsSelf ==
    \A d \in Drivers :
        /\ \A i \in 1..Len(calls[d]) : ~calls[d][i].err
        /\ HasRead(d) =>
             /\ cur[d].current = ProcOf(d)
             /\ ~After(cur[d].now, cur[d].lastBeat + Timeout)
        /\ AttemptEnds(d) =>
             /\ lead[ProcOf(d)]
             /\ sent[d] = IF outcome[ProcOf(d)] THEN <<>> ELSE <<TRUE>>
             /\ nsent[ProcOf(d)] = 1

\* What the noop backend does do: every operation succeeds, Current reports
\* no holder at all, and every attempt ends with lead = true, the first one
\* alone starting OnLeadChanged(true).
C10_NoopAlwaysLeads ==
    \A d \in Drivers :
        /\ \A i \in 1..Len(calls[d]) : ~calls[d][i].err
        /\ HasRead(d) =>
             /\ cur[d].current = NoProcess
             /\ ~After(cur[d].now, cur[d].lastBeat + Timeout)
        /\ AttemptEnds(d) =>
             /\ lead[ProcOf(d)]
             /\ sent[d] = IF outcome[ProcOf(d)] THEN <<>> ELSE <<TRUE>>
             /\ nsent[ProcOf(d)] = 1

\* The attempt of d read a claim held by another process that is not stale:
\* now is not strictly after lastBeat + Timeout.
ReadOtherFresh(d) ==
    ReadOther(d) /\ ~After(cur[d].now, cur[d].lastBeat + Timeout)

\* The backend operations the attempt of d has invoked, in order.
Ops(d) == [i \in 1..Len(calls[d]) |-> calls[d][i].op]

\* C11: an attempt in which Current reports another process's claim that is
\* not stale invokes Begin, Current and Rollback only (neither TryAcquire nor
\* Commit), writes nothing in its transaction, which is rolled back, ends with
\* lead = false, and none of its steps changes the committed claim.
C11_FreshClaimLeftAlone ==
    /\ [](\A d \in Drivers :
            ReadOtherFresh(d) =>
                /\ ~lead[ProcOf(d)]
                /\ pc[d] \in {"rollback", "notify", "unlock"}
                /\ Ops(d) \in {<<"Begin", "Current">>, <<"Begin", "Current", "Rollback">>}
                /\ txn[d].st \in {"open", "none"}
                /\ pc[d] \in {"notify", "unlock"} =>
                     txn[d] = NoTxn /\ Ops(d) = <<"Begin", "Current", "Rollback">>)
    /\ [][\A d \in Drivers :
            (ReadOtherFresh(d) \/ ReadOtherFresh(d)') /\ pc'[d] # pc[d]
                => claim' = claim /\ epoch' = epoch]_vars

\* An attempt has read another process's claim, 10 s old with Timeout = 25 s,
\* and ends having left it as it was.
C11_Witness ==
    \E d \in Drivers :
        /\ AttemptEnds(d) /\ ReadOther(d)
        /\ cur[d].now = cur[d].lastBeat + 2 /\ Timeout = 5
        /\ claim = [holder |-> cur[d].current, beat |-> cur[d].lastBeat]
        /\ Ops(d) = <<"Begin", "Current", "Rollback">>
        /\ ~lead[ProcOf(d)] /\ txn[d] = NoTxn

\* The claim the attempt of d read lets it acquire: vacant, its own whatever
\* its age, or another process's and stale.
ReadAcquirable(d) ==
    \/ cur[d].current = NoProcess
    \/ cur[d].current = ProcOf(d)
    \/ /\ cur[d].current \notin {NoProcess, ProcOf(d)}
       /\ cur[d].now > cur[d].lastBeat + Timeout

\* C12: an attempt ends with lead = true if and only if its Begin succeeded,
\* its Current succeeded, the claim read was vacant, its own, or another
\* process's and stale, its TryAcquire succeeded and its Commit succeeded; in
\* every other case it ends with lead = false.
C12_LeadIffAllSucceeded ==
    \A d \in Drivers :
        AttemptEnds(d) =>
            (lead[ProcOf(d)] <=>
                /\ Succeeded(d, "Begin")
                /\ Succeeded(d, "Current")
                /\ ReadAcquirable(d)
                /\ Succeeded(d, "TryAcquire")
                /\ Succeeded(d, "Commit"))

\* An attempt has read another process's claim, 30 s old with Timeout = 25 s,
\* its TryAcquire and Commit have succeeded, and it ends as the leader, having
\* started OnLeadChanged(true).
C12_Witness ==
    \E d \in Drivers :
        /\ AttemptEnds(d) /\ ReadOther(d)
        /\ cur[d].now = cur[d].lastBeat + 6 /\ Timeout = 5
        /\ Succeeded(d, "TryAcquire") /\ Succeeded(d, "Commit")
        /\ lead[ProcOf(d)] /\ claim.holder = ProcOf(d)
        /\ sent[d] = <<TRUE>>

\* The place of each backend operation in an attempt.
Rank == [Begin |-> 1, Current |-> 2, TryAcquire |-> 3, Commit |-> 4, Rollback |-> 5]

\* The attempt of d has invoked op.
Invoked(d, op) == \E i \in 1..Len(calls[d]) : calls[d][i].op = op

\* C13: within one attempt the backend operations are invoked in the order
\* Begin, Current, TryAcquire, Commit, Rollback, each at most once; Current
\* only after Begin succeeded, TryAcquire (with the process's own ID) only
\* after Current succeeded, Commit only after TryAcquire succeeded; an attempt
\* whose Begin succeeded has invoked Rollback exactly once when it ends, also
\* after a successful Commit, and an attempt whose Begin failed invokes
\* nothing else and leaves the committed claim unchanged.
C13_OperationOrder ==
    /\ [](\A d \in Drivers :
            /\ \A i, j \in 1..Len(calls[d]) :
                 i < j => Rank[calls[d][i].op] < Rank[calls[d][j].op]
            /\ calls[d] # <<>> => calls[d][1].op = "Begin"
            /\ Invoked(d, "Current") => Succeeded(d, "Begin")
            /\ Invoked(d, "TryAcquire") => Succeeded(d, "Current")
            /\ Invoked(d, "Commit") => Succeeded(d, "TryAcquire")
            /\ Invoked(d, "Rollback") => Succeeded(d, "Begin")
            /\ txn[d].st \in {"wrote", "committed"} => txn[d].w.holder = ProcOf(d)
            /\ pc[d] \in {"notify", "unlock"} =>
                 /\ Invoked(d, "Begin")
                 /\ Succeeded(d, "Begin") => Invoked(d, "Rollback")
            /\ Failed(d, "Begin") =>
                 calls[d] = <<[op |-> "Begin", err |-> TRUE]>> /\ txn[d] = NoTxn)
    /\ [][\A d \in Drivers :
            Failed(d, "Begin")' /\ pc'[d] # pc[d]
                => claim' = claim /\ epoch' = epoch]_vars

\* An attempt ends having invoked all five operations, Rollback after a
\* successful Commit.
C13_Witness ==
    \E d \in Drivers :
        /\ AttemptEnds(d)
        /\ Ops(d) = <<"Begin", "Current", "TryAcquire", "Commit", "Rollback">>
        /\ Succeeded(d, "Commit") /\ lead[ProcOf(d)]
        /\ claim.holder = ProcOf(d) /\ txn[d] = NoTxn

\* The goroutines of p that run tryAcquire, and those with a transaction open.
DriversOf(p) == {d \in Drivers : ProcOf(d) = p}
OpenTxns(p) == {d \in DriversOf(p) : txn[d].st # "none"}

\* C14: a transaction of a process is open only while the attempt that opened
\* it holds mu, between its Begin and its Rollback; so whenever mu is free no
\* transaction of the process is open, and at most one attempt and at most one
\* transaction per process is in progress at any time, also when tryAcquire
\* runs in several goroutines of the process.
C14_TxnInsideLock ==
    \A p \in Procs :
        /\ \A d \in OpenTxns(p) :
             mu[p].w /\ pc[d] \in {"current", "tryAcquire", "commit", "rollback"}
        /\ ~mu[p].w => OpenTxns(p) = {}
        /\ Cardinality(OpenTxns(p)) <= 1
        /\ Cardinality({d \in DriversOf(p) :
              pc[d] \in {"begin", "current", "tryAcquire", "commit", "rollback",
                         "notify", "unlock"}}) <= 1

\* One goroutine of a process has written in its open transaction while
\* another goroutine of the same process waits in mu.Lock().
C14_Witness ==
    \E d, e \in Drivers :
        /\ d # e /\ ProcOf(d) = ProcOf(e)
        /\ txn[d].st = "wrote" /\ pc[d] = "commit"
        /\ pc[e] = "lock" /\ txn[e] = NoTxn
        /\ mu[ProcOf(d)].w

\* The goroutine the attempt of d has started, if any, has run the callback.
CallbackRan(d) ==
    /\ sent[d] # <<>>
    /\ \E g \in Ran(ProcOf(d)) : g.n = nsent[ProcOf(d)]

\* C15, as stated: the callback for a transition never starts executing while
\* the attempt that caused the transition still holds mu.
C15_CallbackAfterUnlock ==
    \A d \in Drivers :
        pc[d] \in {"notify", "unlock"} /\ mu[ProcOf(d)].w => ~CallbackRan(d)

\* The latest notification started for p.
Latest(p) == {g \in Notes(p) : g.n = nsent[p]}

\* C16: notifications run in no particular order.  Every goroutine started and
\* not yet run can be the next to run, whichever others are waiting; the
\* notification started last carries the value of lead that the attempts have
\* left, but nothing makes it the last to run.
C16_NotifierUnordered ==
    \A p \in Procs :
        /\ \A g \in pending[p] : ENABLED Callback(p, g)
        /\ ~InAttempt(p) /\ nsent[p] > 0 => \A g \in Latest(p) : g.arg = lead[p]
        /\ Cardinality(Latest(p)) = IF nsent[p] > 0 THEN 1 ELSE 0

\* lead went false -> true in one attempt and true -> false in a later one;
\* OnLeadChanged(false) ran first and OnLeadChanged(true) last, so that the
\* last callback to run says true while lead is false.
C16_Witness ==
    \E p \in Procs :
        /\ log[p] = <<[n |-> 2, arg |-> FALSE], [n |-> 1, arg |-> TRUE]>>
        /\ pending[p] = {} /\ nsent[p] = 2
        /\ ~InAttempt(p) /\ ~lead[p]

\* The callers of p that hold the read lock.
ReadLockHolders(p) == {r \in Readers : ProcOf(r) = p /\ cpc[r] = "runlock"}

\* C18: Run does not hold mu while f executes.  The read lock is held only
\* between RLock and RUnlock inside Lead, so an attempt can take mu, and change
\* lead, while an f that Run started when lead was true is still executing.
C18_FRunsUnlocked ==
    /\ \A p \in Procs : mu[p].r = Cardinality(ReadLockHolders(p))
    /\ \A r \in Readers : cpc[r] = "f" => call[r] = "Run" /\ l[r]
    /\ \A d \in Drivers :
         pc[d] = "lock" /\ ~mu[ProcOf(d)].w /\ ReadLockHolders(ProcOf(d)) = {}
            => ENABLED Lock(d)

\* f, started by Run when lead was true, is still executing after an attempt
\* has ended with lead = false and while another process holds the committed
\* claim.
C18_Witness ==
    \E r \in Readers :
        /\ cpc[r] = "f" /\ l[r]
        /\ ~lead[ProcOf(r)] /\ ~outcome[ProcOf(r)] /\ ~InAttempt(ProcOf(r))
        /\ claim.holder \notin {NoProcess, ProcOf(r)}
        /\ now <= claim.beat + Timeout

\* C19: a leader that has been displaced steps down at its next attempt: an
\* attempt that starts with lead = true and reads another process's claim
\* that is not stale ends with lead = false, having started OnLeadChanged(false)
\* exactly once (in the deferred func, not before) and without invoking
\* TryAcquire.
C19_DisplacedLeaderStepsDown ==
    \A d \in Drivers :
        isLead[d] /\ ReadOtherFresh(d) =>
            /\ ~lead[ProcOf(d)]
            /\ ~Invoked(d, "TryAcquire")
            /\ pc[d] \in {"rollback", "notify"} => sent[d] = <<>>
            /\ AttemptEnds(d) =>
                 /\ sent[d] = <<FALSE>>
                 /\ Latest(ProcOf(d)) = {[n |-> nsent[ProcOf(d)], arg |-> FALSE]}

\* The process was the leader when its last attempt ended; its attempt now
\* ending has read the claim another process committed since, and has started
\* OnLeadChanged(false).
C19_Witness ==
    \E d \in Drivers :
        /\ AttemptEnds(d) /\ isLead[d] /\ outcome[ProcOf(d)]
        /\ ReadOtherFresh(d) /\ lease[ProcOf(d)] >= 0
        /\ claim.holder = cur[d].current
        /\ ~lead[ProcOf(d)] /\ sent[d] = <<FALSE>>

\* Both p and q have lead = true, q holding the committed claim.
Robbed(p, q) ==
    /\ p # q /\ lead[p] /\ lead[q]
    /\ claim.holder = q /\ LeaseFresh(q)

\* C17: with HeartBeat >= Timeout a leader whose loop never oversleeps is
\* robbed between two renewals: another process takes the claim once it is
\* more than Timeout old, which happens before the leader's next attempt has
\* renewed it, and both have lead = true.  The claim is never taken earlier
\* than that.
C17_RobbedBetweenRenewals ==
    \A p, q \in Procs :
        Robbed(p, q) =>
            /\ lease[p] >= 0 /\ now > lease[p] + Timeout
            /\ lease[q] > lease[p] + Timeout

\* A leader whose last attempt wrote its heartbeat and returned at once, and
\* which is asleep since, less than HeartBeat after that heartbeat, still has
\* lead = true while another process has taken the claim and has lead = true
\* too; no backend operation has failed.
C17_Witness ==
    \E d \in Drivers, q \in Procs :
        /\ HeartBeat >= Timeout /\ ~anyErr
        /\ pc[d] = "sleep" /\ outcome[ProcOf(d)]
        /\ wake[d] = lease[ProcOf(d)] + HeartBeat /\ now < wake[d]
        /\ Robbed(ProcOf(d), q)

\* The process p holds the committed claim and has been terminated.
HolderStopped(p) == pc[<<p, 1>>] = "off" /\ claim.holder = p

\* C20: failover is live.  Whenever the process holding the claim has stopped
\* making attempts, then with time advancing, the other process's Acquire loop
\* running and no backend operation failing, eventually that other process
\* has lead = true.
C20_FailoverIsLive ==
    \A p \in Procs :
        HolderStopped(p) ~> (\E q \in Procs \ {p} : lead[q])

\* The holder was terminated after a commit later than its first (a renewal,
\* or a takeover of its own), so that its claim passed its timeout only after
\* MaxTime; the other process, having read the claim once it was stale, has
\* taken it and is the leader.
C20_Witness ==
    \E p \in Procs, e \in Drivers :
        /\ pc[<<p, 1>>] = "off" /\ lead[p] /\ lease[p] >= 0
        /\ epoch >= 3 /\ now = MaxTime
        /\ ProcOf(e) # p /\ AttemptEnds(e) /\ ReadOther(e)
        /\ cur[e].current = p /\ cur[e].now > cur[e].lastBeat + Timeout
        /\ lead[ProcOf(e)] /\ claim.holder = ProcOf(e)

====
